---- MODULE Spec2Model ----
(***************************************************************************)
(* Model of the Prism in-browser HTTP adapter (createServer().fetch):      *)
(* request normalisation, preference resolution, config merging, engine    *)
(* invocation, response synthesis and error translation.                   *)
(*                                                                         *)
(* JavaScript values are modelled as follows.                              *)
(*   - strings are TLA+ strings, handled character by character with       *)
(*     Len, SubSeq and \o;                                                 *)
(*   - null and undefined are the two distinct sentinels Null / Undefined; *)
(*   - a value of unknown type (a preference candidate, a payload) is a    *)
(*     record [t |-> typeof-tag, ...];                                     *)
(*   - an optional field is a sequence of length 0 (absent) or 1.          *)
(***************************************************************************)
EXTENDS Integers, Sequences, FiniteSets, TLC

\* ------------------------------------------------------------------ bounds
\* Violations the engine reports per list (input, output) in the pipeline runs.
MaxViolations == 1
\* Violations per list in the header-budget runs (long messages).
MaxLongViolations == 1
\* fetch calls in flight at once in the concurrent runs.
MaxConcurrent == 2

\* --------------------------------------------------------------- JS values
Null == "<null>"
Undefined == "<undefined>"

\* The i-th character of s, as a one-character string.
Char(s, i) == SubSeq(s, i, i)

\* String.prototype.indexOf for a one-character needle; 0 when absent
\* (positions are 1-based here).
RECURSIVE IndexFrom(_, _, _)
IndexFrom(s, c, i) ==
  IF i > Len(s) THEN 0
  ELSE IF Char(s, i) = c THEN i
  ELSE IndexFrom(s, c, i + 1)

IndexOf(s, c) == IndexFrom(s, c, 1)

\* s repeated n times.
RECURSIVE Repeat(_, _)
Repeat(s, n) ==
  IF n = 0 THEN ""
  ELSE IF n % 2 = 0 THEN LET h == Repeat(s, n \div 2) IN h \o h
  ELSE s \o Repeat(s, n - 1)

\* Array.prototype.join over a sequence of strings.
RECURSIVE Join(_, _)
Join(parts, sep) ==
  IF Len(parts) = 0 THEN ""
  ELSE IF Len(parts) = 1 THEN parts[1]
  ELSE parts[1] \o sep \o Join(Tail(parts), sep)

Digits == "0123456789"

IsDigit(c) == IndexOf(Digits, c) > 0

DigitValue(c) == IndexOf(Digits, c) - 1

\* All sequences over S of length at most n.
SeqUpTo(S, n) == UNION {[1..k -> S] : k \in 0..n}

\* ------------------------------------------------------------- media types
\* type-is: mimeMatch(expected, actual) on "type/subtype" strings.
MimeType(s) == SubSeq(s, 1, IndexOf(s, "/") - 1)

MimeSubtype(s) == SubSeq(s, IndexOf(s, "/") + 1, Len(s))

mimeMatch(expected, actual) ==
  LET et == MimeType(expected)
      es == MimeSubtype(expected)
      at == MimeType(actual)
      as == MimeSubtype(actual)
  IN  /\ IndexOf(actual, "/") > 0
      /\ (et = "*" \/ et = at)
      /\ IF Len(es) >= 2 /\ SubSeq(es, 1, 2) = "*+"
         THEN /\ Len(es) <= Len(as) + 1
              /\ SubSeq(es, 2, Len(es)) = SubSeq(as, Len(as) - Len(es) + 2, Len(as))
         ELSE es = "*" \/ es = as

\* type-is: is(value, types); a null/undefined/empty value matches nothing.
typeIs(value, types) ==
  /\ value \notin {Null, Undefined, ""}
  /\ \E i \in 1..Len(types) : mimeMatch(types[i], value)

IsJsonType(value) == typeIs(value, <<"application/json", "application/*+json">>)

IsXmlType(value) == typeIs(value, <<"application/xml", "application/*+xml">>)

IsTextType(value) == typeIs(value, <<"text/*">>)

\* ---------------------------------------------------------------- payloads
\* A response body as the engine hands it over: undefined, a string, or the
\* object {a: <n>}.
PUndefined == [t |-> "undefined", s |-> "", a |-> 0]

PString(x) == [t |-> "string", s |-> x, a |-> 0]

PObject(n) == [t |-> "object", s |-> "", a |-> n]

\* JavaScript truthiness of a payload: undefined and "" are falsy.
Truthy(p) == p.t = "object" \/ (p.t = "string" /\ p.s # "")

\* Number.prototype.toString for a natural number.
RECURSIVE IntToStr(_)
IntToStr(n) ==
  IF n < 10 THEN Char(Digits, n + 1)
  ELSE IntToStr(n \div 10) \o Char(Digits, (n % 10) + 1)

\* JSON.stringify of a payload (strings in the model need no escaping).
JSONStringify(p) ==
  CASE p.t = "undefined" -> Undefined
    [] p.t = "string" -> "\"" \o p.s \o "\""
    [] p.t = "object" -> "{\"a\":" \o IntToStr(p.a) \o "}"

\* XMLBuilder.build({xml: data}) for the payloads of the model.
XmlBuild(p) ==
  CASE p.t = "undefined" -> "<xml></xml>"
    [] p.t = "string" -> "<xml>" \o p.s \o "</xml>"
    [] p.t = "object" -> "<xml><a>" \o IntToStr(p.a) \o "</a></xml>"

\* The outcome of a call that may throw.
Returned(v) == [thrown |-> FALSE, value |-> v, error |-> ""]

Thrown(e) == [thrown |-> TRUE, value |-> Undefined, error |-> e]

NO_COMPLEX_OBJECT_TEXT == "https://stoplight.io/prism/errors#NO_COMPLEX_OBJECT_TEXT"

NO_SERIALIZER == "Cannot find serializer"

jsonSerializer(p) == Returned(JSONStringify(p))

xmlSerializer(p) == Returned(IF p.t = "string" THEN p.s ELSE XmlBuild(p))

textSerializer(p) ==
  IF p.t \in {"string", "undefined"}
  THEN Returned(IF p.t = "string" THEN p.s ELSE Undefined)
  ELSE Thrown(NO_COMPLEX_OBJECT_TEXT)

\* serializers.find((s) => s.test(contentType)): the index of the first
\* serializer whose test accepts the content type, 0 when none does.
FindSerializer(contentType) ==
  IF IsJsonType(contentType) THEN 1
  ELSE IF IsXmlType(contentType) THEN 2
  ELSE IF IsTextType(contentType) THEN 3
  ELSE 0

serialize(payload, contentType) ==
  IF contentType \in {Undefined, ""} /\ ~Truthy(payload)
  THEN Returned(Undefined)
  ELSE LET k == IF contentType \in {Undefined, ""} THEN 0
                ELSE FindSerializer(contentType)
       IN  CASE k = 0 -> IF payload.t = "string" THEN Returned(payload.s)
                         ELSE Thrown(NO_SERIALIZER)
             [] k = 1 -> jsonSerializer(payload)
             [] k = 2 -> xmlSerializer(payload)
             [] k = 3 -> textSerializer(payload)

\* ------------------------------------------------------------- preferences
\* A value of unknown type: undefined, a string, the boolean true, an array.
JsUndefined == [t |-> "undefined", s |-> "", vals |-> <<>>]

JsString(x) == [t |-> "string", s |-> x, vals |-> <<>>]

JsTrue == [t |-> "boolean", s |-> "true", vals |-> <<>>]

JsArray(v) == [t |-> "array", s |-> "", vals |-> v]

\* Optional fields.
None == <<>>

Some(x) == <<x>>

\* io-ts decoders: each yields [ok, value].
BooleanFromString(s) ==
  IF s = "true" THEN [ok |-> TRUE, value |-> Some(TRUE)]
  ELSE IF s = "false" THEN [ok |-> TRUE, value |-> Some(FALSE)]
  ELSE [ok |-> FALSE, value |-> None]

\* /^\d{3}$/.test(s) ? parseInt(s, 10) : failure
IntegerFromString(s) ==
  IF Len(s) = 3 /\ \A i \in 1..3 : IsDigit(Char(s, i))
  THEN [ok |-> TRUE,
        value |-> Some(100 * DigitValue(Char(s, 1)) + 10 * DigitValue(Char(s, 2))
                       + DigitValue(Char(s, 3)))]
  ELSE [ok |-> FALSE, value |-> None]

Failed == [ok |-> FALSE, value |-> None]

Absent == [ok |-> TRUE, value |-> None]

\* The three properties of PreferencesDecoder.  D.partial leaves out a property
\* whose value is undefined; D.string fails a value that is not a string
\* before the parser piped after it runs.
DecodeCode(v) ==
  IF v.t = "undefined" THEN Absent
  ELSE IF v.t # "string" THEN Failed
  ELSE IntegerFromString(v.s)

DecodeDynamic(v) ==
  IF v.t = "undefined" THEN Absent
  ELSE IF v.t # "string" THEN Failed
  ELSE BooleanFromString(v.s)

DecodeExample(v) ==
  IF v.t = "undefined" THEN Absent
  ELSE IF v.t # "string" THEN Failed
  ELSE [ok |-> TRUE, value |-> Some(v.s)]

\* D.partial({code, dynamic, example}).decode(preferences)
PreferencesDecoder(preferences) ==
  LET c == DecodeCode(preferences.code)
      d == DecodeDynamic(preferences.dynamic)
      e == DecodeExample(preferences.example)
  IN  [ok |-> c.ok /\ d.ok /\ e.ok,
       code |-> c.value, dynamic |-> d.value, example |-> e.value,
       failed |-> (IF c.ok THEN <<>> ELSE <<"code">>)
                  \o (IF d.ok THEN <<>> ELSE <<"dynamic">>)
                  \o (IF e.ok THEN <<>> ELSE <<"example">>)]

\* parse-prefer-header on a header given as its comma-separated tokens, each
\* [key, hasValue, value]: a token without "=value" maps its key to true, a
\* later token overrides an earlier one with the same key.
RECURSIVE PreferLookup(_, _)
PreferLookup(tokens, key) ==
  IF Len(tokens) = 0 THEN JsUndefined
  ELSE LET last == tokens[Len(tokens)]
       IN  IF last.key = key
           THEN (IF last.hasValue THEN JsString(last.value) ELSE JsTrue)
           ELSE PreferLookup(SubSeq(tokens, 1, Len(tokens) - 1), key)

parsePreferHeader(tokens) ==
  [code |-> PreferLookup(tokens, "code"),
   dynamic |-> PreferLookup(tokens, "dynamic"),
   example |-> PreferLookup(tokens, "example")]

\* URLSearchParams.getAll(key) on a list of <<name, value>> pairs.
RECURSIVE GetAll(_, _)
GetAll(searchParams, key) ==
  IF Len(searchParams) = 0 THEN <<>>
  ELSE (IF searchParams[1][1] = key THEN <<searchParams[1][2]>> ELSE <<>>)
       \o GetAll(Tail(searchParams), key)

\* One entry of searchParamsToNameValues: a scalar for a single value, the
\* ordered list for several; undefined for a key that does not occur.
NameValue(searchParams, key) ==
  LET values == GetAll(searchParams, key)
  IN  IF Len(values) = 0 THEN JsUndefined
      ELSE IF Len(values) = 1 THEN JsString(values[1])
      ELSE JsArray(values)

QueryKeys(searchParams) == {searchParams[i][1] : i \in 1..Len(searchParams)}

searchParamsToNameValues(searchParams) ==
  [k \in QueryKeys(searchParams) |-> NameValue(searchParams, k)]

\* query?.<key>
QueryGet(query, key) == IF key \in DOMAIN query THEN query[key] ELSE JsUndefined

\* Problem templates of @stoplight/prism-http.
UNPROCESSABLE_ENTITY ==
  [type |-> "UNPROCESSABLE_ENTITY", title |-> "Invalid request", status |-> 422]

VIOLATIONS ==
  [type |-> "VIOLATIONS", title |-> "Request/Response not valid", status |-> 500]

NoHeaders == <<>>

\* ProblemJsonError.fromTemplate(template, detail, additional)
FromTemplate(template, detail, validation) ==
  [type |-> template.type, status |-> Some(template.status), detail |-> detail,
   headers |-> NoHeaders, validation |-> validation]

\* The placeholder in the failure slot of a value that is not a failure.
NoFailure == FromTemplate(VIOLATIONS, "", <<>>)

NoPreferences == [code |-> None, exampleKey |-> None, dynamic |-> None]

Left(e) == [tag |-> "Left", left |-> e, right |-> NoPreferences]

Right(v) == [tag |-> "Right", left |-> NoFailure, right |-> v]

\* Variant: the query parameters fill in the fields the prefer header leaves
\* out.
getHttpConfigFromRequestFilled(req) ==
  LET hdr == IF "prefer" \in DOMAIN req.headers /\ Len(req.headers["prefer"]) > 0
             THEN parsePreferHeader(req.headers["prefer"])
             ELSE [code |-> JsUndefined, dynamic |-> JsUndefined, example |-> JsUndefined]
      qry == [code |-> QueryGet(req.url.query, "__code"),
              dynamic |-> QueryGet(req.url.query, "__dynamic"),
              example |-> QueryGet(req.url.query, "__example")]
      preferences == [k \in {"code", "dynamic", "example"} |->
                        IF hdr[k].t # "undefined" THEN hdr[k] ELSE qry[k]]
      parsed == PreferencesDecoder(preferences)
  IN  IF parsed.ok
      THEN Right([code |-> parsed.code, exampleKey |-> parsed.example,
                  dynamic |-> parsed.dynamic])
      ELSE Left(FromTemplate(UNPROCESSABLE_ENTITY,
                             "cannot decode " \o Join(parsed.failed, ","), <<>>))

getHttpConfigFromRequest(req) ==
  LET preferences ==
        IF "prefer" \in DOMAIN req.headers /\ Len(req.headers["prefer"]) > 0
        THEN parsePreferHeader(req.headers["prefer"])
        ELSE [code |-> QueryGet(req.url.query, "__code"),
              dynamic |-> QueryGet(req.url.query, "__dynamic"),
              example |-> QueryGet(req.url.query, "__example")]
      parsed == PreferencesDecoder(preferences)
  IN  IF parsed.ok
      THEN Right([code |-> parsed.code, exampleKey |-> parsed.example,
                  dynamic |-> parsed.dynamic])
      ELSE Left(FromTemplate(UNPROCESSABLE_ENTITY,
                             "cannot decode " \o Join(parsed.failed, ","), <<>>))

\* -------------------------------------------------------------- violations
\* DiagnosticSeverity[n] of @stoplight/types: the name of enum value n.
DiagnosticSeverity(n) ==
  CASE n = 0 -> "Error"
    [] n = 1 -> "Warning"
    [] n = 2 -> "Information"
    [] OTHER -> "Hint"

\* An IPrismDiagnostic of the engine.
Diagnostic(path, severity, code, message) ==
  [path |-> path, severity |-> severity, code |-> code, message |-> message]

createErrorObjectWithPrefix(locationPrefix, detail) ==
  [location |-> <<locationPrefix>> \o detail.path,
   severity |-> DiagnosticSeverity(detail.severity),
   code |-> detail.code,
   message |-> detail.message]

\* Array.prototype.map(createErrorObjectWithPrefix(prefix))
MapWithPrefix(locationPrefix, details) ==
  [i \in 1..Len(details) |-> createErrorObjectWithPrefix(locationPrefix, details[i])]

Quote(s) == "\"" \o s \o "\""

QuoteAll(parts) == [i \in 1..Len(parts) |-> Quote(parts[i])]

\* JSON.stringify of one ValidationError.
StringifyError(v) ==
  "{\"location\":[" \o Join(QuoteAll(v.location), ",") \o "],\"severity\":"
  \o Quote(v.severity) \o ",\"code\":" \o Quote(v.code) \o ",\"message\":"
  \o Quote(v.message) \o "}"

\* JSON.stringify(validationErrors)
StringifyErrors(errors) ==
  "[" \o Join([i \in 1..Len(errors) |-> StringifyError(errors[i])], ",") \o "]"

\* Headers.set(name, value) on a header map.
HeadersSet(headers, name, value) ==
  [n \in (DOMAIN headers) \cup {name} |-> IF n = name THEN value ELSE headers[n]]

\* Headers.get(name): null when the header is absent.
HeadersGet(headers, name) ==
  IF name \in DOMAIN headers THEN headers[name] ELSE Null

MAX_SAFE_HEADER_LENGTH == 8 * 1024 - 100

TooManyPrefix == "Too many violations! "

\* Variant: the encoding cut at the cap without the prefix notice.
ViolationHeaderValueCut(validationErrors) ==
  LET value == StringifyErrors(validationErrors)
  IN  IF Len(value) > MAX_SAFE_HEADER_LENGTH
      THEN SubSeq(value, 1, MAX_SAFE_HEADER_LENGTH)
      ELSE value

\* The value addViolationHeader stores for a non-empty list.
ViolationHeaderValue(validationErrors) ==
  LET value == StringifyErrors(validationErrors)
  IN  IF Len(value) > MAX_SAFE_HEADER_LENGTH
      THEN TooManyPrefix \o SubSeq(value, 1, MAX_SAFE_HEADER_LENGTH)
      ELSE value

addViolationHeader(replyHeaders, validationErrors) ==
  IF Len(validationErrors) = 0 THEN replyHeaders
  ELSE HeadersSet(replyHeaders, "sl-violations", ViolationHeaderValue(validationErrors))

\* Array.prototype.filter(v => v.severity === "Error")
RECURSIVE FilterErrors(_)
FilterErrors(errors) ==
  IF Len(errors) = 0 THEN <<>>
  ELSE (IF errors[1].severity = DiagnosticSeverity(0) THEN <<errors[1]>> ELSE <<>>)
       \o FilterErrors(Tail(errors))

\* Variant: the severity compared with the enum number instead of its name, so
\* that no branch matches and everything is logged at info.
ViolationLogByNumber(validation) ==
  [level |-> "info",
   message |-> "Violation: " \o Join(validation.location, ".") \o " "
               \o validation.message]

\* The logger level and message of one violation.
ViolationLog(validation) ==
  [level |-> IF validation.severity = DiagnosticSeverity(0) THEN "error"
             ELSE IF validation.severity = DiagnosticSeverity(1) THEN "warn"
             ELSE "info",
   message |-> "Violation: " \o Join(validation.location, ".") \o " "
               \o validation.message]

\* inputOutputValidationErrors.forEach(log)
LogViolations(errors) == [i \in 1..Len(errors) |-> ViolationLog(errors[i])]

\* ------------------------------------------------------------ request body
PNull == [t |-> "null", s |-> "", a |-> 0]

\* JSON.parse for the bodies of the model: {"a":<digit>} and "<string>" parse,
\* anything else (the empty text included) is a SyntaxError.
JSONParse(raw) ==
  IF Len(raw) = 7 /\ SubSeq(raw, 1, 5) = "{\"a\":" /\ IsDigit(Char(raw, 6))
     /\ Char(raw, 7) = "}"
  THEN Returned(PObject(DigitValue(Char(raw, 6))))
  ELSE IF Len(raw) >= 2 /\ Char(raw, 1) = "\"" /\ Char(raw, Len(raw)) = "\""
          /\ IndexOf(SubSeq(raw, 2, Len(raw) - 1), "\"") = 0
  THEN Returned(PString(SubSeq(raw, 2, Len(raw) - 1)))
  ELSE [thrown |-> TRUE, value |-> PNull, error |-> "SyntaxError"]

\* Which reader parseRequestBody picks: "none" resolves with null without
\* touching the body, "json" is request.json(), "text" is request.text().
\* Headers.get yields null, never undefined, for an absent header.
parseRequestBody(request) ==
  IF \/ HeadersGet(request.headers, "content-length") = "0"
     \/ /\ HeadersGet(request.headers, "transfer-encoding") = Undefined
        /\ HeadersGet(request.headers, "content-length") = Undefined
  THEN "none"
  ELSE IF IsJsonType(HeadersGet(request.headers, "content-type"))
  THEN "json"
  ELSE "text"

\* What the promise of parseRequestBody settles with; a request without a body
\* has the empty text.
ReadBody(request, reader) ==
  CASE reader = "none" -> [thrown |-> FALSE, value |-> PNull, error |-> ""]
    [] reader = "json" -> JSONParse(request.body)
    [] reader = "text" -> [thrown |-> FALSE, value |-> PString(request.body), error |-> ""]

\* ------------------------------------------------------------------- state
VARIABLES
  config,         \* opts.config, the baseline configuration of createServer
  pc,             \* per fetch call: idle, awaitBody, awaitEngine, responded, rejected
  request,        \* per call: the transport request
  bodyReader,     \* per call: the reader parseRequestBody picked
  input,          \* per call: the normalized request
  engineConfig,   \* per call: the config prism.request was called with, if it was
  engineResult,   \* per call: what prism.request settled with, if it did
  response,       \* per call: the Response fetch resolved with, if it did
  rejection,      \* per call: the error fetch rejected with, if it did
  log             \* per call: the logger entries it wrote, in order

vars == <<config, pc, request, bodyReader, input, engineConfig,
          engineResult, response, rejection, log>>

Calls == 1..MaxConcurrent

\* The mock section of a config: every field optional.
Mock(code, exampleKey, dynamic) ==
  [code |-> code, exampleKey |-> exampleKey, dynamic |-> dynamic]

Config(errors, mock) ==
  [checkSecurity |-> TRUE, validateRequest |-> TRUE, validateResponse |-> TRUE,
   errors |-> errors, mock |-> mock]

\* The baselines createServer is given: the mock section of main.ts, and one
\* with every field set.
BaselineMocks ==
  {Mock(None, None, Some(FALSE)), Mock(Some(201), Some("dog"), Some(TRUE))}

Baselines == {Config(e, m) : e \in BOOLEAN, m \in BaselineMocks}

\* Variant: lodash merge instead of lodash/fp merge, which merges into the
\* target itself and returns it.
mergeInPlace(target, source) ==
  LET m == [k \in DOMAIN target |->
              IF source[k] # None THEN source[k] ELSE target[k]]
  IN  [result |-> m, target |-> m]

\* lodash/fp merge(target, source): a fresh object; a source field that is
\* undefined keeps the target's value; the target itself is left as it was.
\* [result: the merged object, target: the first argument after the call].
merge(target, source) ==
  [result |-> [k \in DOMAIN target |->
                 IF source[k] # None THEN source[k] ELSE target[k]],
   target |-> target]

\* Transport requests.
TransportRequest(method, headers, search, body) ==
  [method |-> method, path |-> "/pets", headers |-> headers, search |-> search,
   body |-> body]

UpperCase == "ABCDEFGHIJKLMNOPQRSTUVWXYZ"

LowerCase == "abcdefghijklmnopqrstuvwxyz"

\* String.prototype.toLowerCase
RECURSIVE ToLowerCase(_)
ToLowerCase(s) ==
  IF Len(s) = 0 THEN ""
  ELSE LET c == Char(s, 1)
           k == IndexOf(UpperCase, c)
       IN  (IF k > 0 THEN Char(LowerCase, k) ELSE c)
           \o ToLowerCase(SubSeq(s, 2, Len(s)))

\* searchParams.get(name) || undefined
SearchGetOrUndefined(search, name) ==
  LET values == GetAll(search, name)
  IN  IF Len(values) = 0 \/ values[1] = "" THEN Undefined ELSE values[1]

\* The normalized request built from the transport request and its body.
NormalizedRequest(req, body) ==
  [method |-> IF req.method # "" THEN ToLowerCase(req.method) ELSE "get",
   url |-> [path |-> req.path,
            baseUrl |-> SearchGetOrUndefined(req.search, "__server"),
            query |-> searchParamsToNameValues(req.search)],
   headers |-> req.headers,
   body |-> body]

NoRequest == TransportRequest("", <<>>, <<>>, "")

NoInput == NormalizedRequest(NoRequest, PNull)

\* Responses.
NoProblem == [type |-> "", status |-> 0, detail |-> "", validation |-> <<>>]

TextBody(text) == [kind |-> "text", text |-> text, problem |-> NoProblem]

NoBody == [kind |-> "none", text |-> "", problem |-> NoProblem]

ProblemBody(problem) == [kind |-> "problem", text |-> "", problem |-> problem]

Response(status, headers, body) ==
  [status |-> status, headers |-> headers, body |-> body]

NoResponse == Response(0, <<>>, NoBody)

\* e.status || 500
StatusOr500(e) ==
  IF e.status = None \/ e.status[1] = 0 THEN 500 ELSE e.status[1]

\* ProblemJsonError.toProblemJson(e)
toProblemJson(e) ==
  [type |-> e.type, status |-> StatusOr500(e), detail |-> e.detail,
   validation |-> e.validation]

\* Variant: the additional headers of the failure are not copied.
CopyHeadersDropped(headers, additional) == headers

\* Object.entries(e.additional.headers).forEach(([n, v]) => headers.set(n, v))
\* on top of `headers`.
CopyHeaders(headers, additional) ==
  [n \in (DOMAIN headers) \cup (DOMAIN additional) |->
     IF n \in DOMAIN additional THEN additional[n] ELSE headers[n]]

PROBLEM_JSON == "application/problem+json"

\* The TE.orElse handler: the response for failure e.
ErrorResponse(e) ==
  Response(StatusOr500(e),
           CopyHeaders(HeadersSet(<<>>, "content-type", PROBLEM_JSON), e.headers),
           ProblemBody(toProblemJson(e)))

ErrorLog(e) ==
  [level |-> "error", message |-> "Request terminated with error: " \o e.type]

\* Engine results: Right(IPrismOutput) or Left(failure).
EngineOutput(statusCode, headers, body, inViolations, outViolations) ==
  [tag |-> "Right",
   output |-> [statusCode |-> statusCode, headers |-> headers, body |-> body],
   validations |-> [input |-> inViolations, output |-> outViolations],
   failure |-> NoFailure]

NoOutput == [statusCode |-> 0, headers |-> <<>>, body |-> PUndefined]

NoValidations == [input |-> <<>>, output |-> <<>>]

EngineFailure(e) ==
  [tag |-> "Left",
   output |-> NoOutput,
   validations |-> NoValidations,
   failure |-> e]

Failure(type, status, headers) ==
  [type |-> type, status |-> status, detail |-> "", headers |-> headers,
   validation |-> <<>>]

Init ==
  /\ config \in Baselines
  /\ pc = [r \in Calls |-> "idle"]
  /\ request = [r \in Calls |-> NoRequest]
  /\ bodyReader = [r \in Calls |-> "none"]
  /\ input = [r \in Calls |-> NoInput]
  /\ engineConfig = [r \in Calls |-> <<>>]
  /\ engineResult = [r \in Calls |-> <<>>]
  /\ response = [r \in Calls |-> <<>>]
  /\ rejection = [r \in Calls |-> <<>>]
  /\ log = [r \in Calls |-> <<>>]

\* fetch, from the call to its first await: the Request is built and
\* parseRequestBody picks its reader.
Fetch(r, requests) ==
  /\ pc[r] = "idle"
  /\ \E q \in requests :
       /\ request' = [request EXCEPT ![r] = q]
       /\ bodyReader' = [bodyReader EXCEPT ![r] = parseRequestBody(q)]
  /\ pc' = [pc EXCEPT ![r] = "awaitBody"]
  /\ UNCHANGED <<config, input, engineConfig, engineResult, response,
                 rejection, log>>

\* fetch, from the settled body to the engine invocation with the merged
\* requestConfig (or, for a Left requestConfig, through the TE.orElse handler
\* to the response).  A rejected
\* body promise makes the await throw: fetch rejects.
Resume(r) ==
  /\ pc[r] = "awaitBody"
  /\ LET body == ReadBody(request[r], bodyReader[r])
         norm == NormalizedRequest(request[r], body.value)
         prefs == getHttpConfigFromRequest(norm)
         merged == merge(config.mock, prefs.right)
     IN  IF body.thrown
         THEN /\ pc' = [pc EXCEPT ![r] = "rejected"]
              /\ rejection' = [rejection EXCEPT ![r] = <<body.error>>]
              /\ UNCHANGED <<config, input, engineConfig, response, log>>
         ELSE /\ input' = [input EXCEPT ![r] = norm]
              /\ IF prefs.tag = "Right"
                 THEN /\ config' = [config EXCEPT !.mock = merged.target]
                      /\ engineConfig' = [engineConfig EXCEPT ![r] =
                           <<[config EXCEPT !.mock = merged.result]>>]
                      /\ pc' = [pc EXCEPT ![r] = "awaitEngine"]
                      /\ log' = [log EXCEPT ![r] =
                           <<[level |-> "info", message |-> "Request received"]>>]
                      /\ UNCHANGED <<response, rejection>>
                 ELSE /\ response' = [response EXCEPT ![r] = <<ErrorResponse(prefs.left)>>]
                      /\ pc' = [pc EXCEPT ![r] = "responded"]
                      /\ log' = [log EXCEPT ![r] =
                           <<[level |-> "info", message |-> "Request received"],
                             ErrorLog(prefs.left)>>]
                      /\ UNCHANGED <<config, engineConfig, rejection>>
  /\ UNCHANGED <<request, bodyReader, engineResult>>

VIOLATIONS_DETAIL == "Your request/response is not valid and the --errors flag is set"

\* The TE.chainIOEitherK callback on an engine output under baseline `cfg`:
\* what fetch settles with and what it logs.
\*   kind: "response" (IOE.right), "failure" (IOE.left, handled by TE.orElse)
\*   or "throw" (serialize threw inside the callback).
\*   headers: the reply headers of the callback, after addViolationHeader.
Synthesize(cfg, result) ==
  LET output == result.output
      headers0 == output.headers
      inputValidationErrors == MapWithPrefix("request", result.validations.input)
      outputValidationErrors == MapWithPrefix("response", result.validations.output)
      inputOutputValidationErrors == inputValidationErrors \o outputValidationErrors
      headers == addViolationHeader(headers0, inputOutputValidationErrors)
      errorViolations == FilterErrors(outputValidationErrors)
      contentType == IF HeadersGet(headers, "content-type") = Null THEN Undefined
                     ELSE HeadersGet(headers, "content-type")
      body == serialize(output.body, contentType)
  IN  IF Len(inputOutputValidationErrors) > 0 /\ cfg.errors /\ Len(errorViolations) > 0
      THEN [kind |-> "failure", headers |-> headers, logs |-> <<>>,
            failure |-> FromTemplate(VIOLATIONS, VIOLATIONS_DETAIL, errorViolations),
            response |-> NoResponse, error |-> ""]
      ELSE IF body.thrown
      THEN [kind |-> "throw", headers |-> headers,
            logs |-> LogViolations(inputOutputValidationErrors),
            failure |-> NoFailure,
            response |-> NoResponse, error |-> body.error]
      ELSE [kind |-> "response", headers |-> headers,
            logs |-> LogViolations(inputOutputValidationErrors),
            failure |-> NoFailure,
            response |-> Response(output.statusCode, headers,
                                  IF body.value = Undefined THEN NoBody
                                  ELSE TextBody(body.value)),
            error |-> ""]

\* fetch, from the settled engine call to its end.
EngineReply(r, results) ==
  /\ pc[r] = "awaitEngine"
  /\ \E res \in results :
       /\ engineResult' = [engineResult EXCEPT ![r] = <<res>>]
       /\ IF res.tag = "Left"
          THEN /\ response' = [response EXCEPT ![r] = <<ErrorResponse(res.failure)>>]
               /\ log' = [log EXCEPT ![r] = Append(@, ErrorLog(res.failure))]
               /\ pc' = [pc EXCEPT ![r] = "responded"]
               /\ UNCHANGED rejection
          ELSE LET syn == Synthesize(config, res)
               IN  CASE syn.kind = "failure" ->
                          /\ response' = [response EXCEPT ![r] =
                                            <<ErrorResponse(syn.failure)>>]
                          /\ log' = [log EXCEPT ![r] =
                                       Append(@ \o syn.logs, ErrorLog(syn.failure))]
                          /\ pc' = [pc EXCEPT ![r] = "responded"]
                          /\ UNCHANGED rejection
                     [] syn.kind = "throw" ->
                          /\ rejection' = [rejection EXCEPT ![r] = <<syn.error>>]
                          /\ log' = [log EXCEPT ![r] = @ \o syn.logs]
                          /\ pc' = [pc EXCEPT ![r] = "rejected"]
                          /\ UNCHANGED response
                     [] syn.kind = "response" ->
                          /\ response' = [response EXCEPT ![r] = <<syn.response>>]
                          /\ log' = [log EXCEPT ![r] = @ \o syn.logs]
                          /\ pc' = [pc EXCEPT ![r] = "responded"]
                          /\ UNCHANGED rejection
  /\ UNCHANGED <<config, request, bodyReader, input, engineConfig>>

\* ---------------------------------------------------------- input domains
Header1(n, v) == [k \in {n} |-> v]

Header2(n1, v1, n2, v2) == [k \in {n1, n2} |-> IF k = n1 THEN v1 ELSE v2]

Token(key, value) == [key |-> key, hasValue |-> TRUE, value |-> value]

Flag(key) == [key |-> key, hasValue |-> FALSE, value |-> ""]

\* Requests of the pipeline runs: no body; an empty body announced by
\* content-length 0; JSON bodies, well-formed and malformed; a text body;
\* preferences by header and by query, well-formed and malformed.
PipelineRequests ==
  { TransportRequest("GET", <<>>, <<>>, ""),
    TransportRequest("GET", Header1("content-type", "application/json"), <<>>, ""),
    TransportRequest("POST", Header2("content-length", "0", "content-type", "application/json"),
                     <<>>, ""),
    TransportRequest("POST", Header2("content-length", "7", "content-type", "application/json"),
                     <<>>, "{\"a\":1}"),
    TransportRequest("POST", Header2("content-length", "4", "content-type", "application/json"),
                     <<<<"__code", "20">>>>, "{bad"),
    TransportRequest("POST", Header2("content-length", "4", "content-type", "text/plain"),
                     <<>>, "ping"),
    TransportRequest("GET", Header1("prefer", <<Token("code", "404")>>),
                     <<<<"__dynamic", "maybe">>>>, ""),
    TransportRequest("GET", Header1("prefer", <<Flag("dynamic")>>), <<>>, ""),
    TransportRequest("GET", <<>>, <<<<"__code", "20">>>>, ""),
    TransportRequest("GET", <<>>, <<<<"__code", "200">>, <<"__code", "404">>>>, ""),
    TransportRequest("GET", <<>>,
                     <<<<"__dynamic", "true">>, <<"__example", "cat">>, <<"__server", "http://a">>>>,
                     "") }

Severities == 0..2

Diagnostics == {Diagnostic(<<"body">>, sv, "c", "m") : sv \in Severities}

ViolationLists == SeqUpTo(Diagnostics, MaxViolations)

OutputHeaders ==
  { <<>>, Header1("content-type", "application/json"),
    Header1("content-type", "text/plain"),
    Header1("content-type", "application/octet-stream") }

Payloads == {PUndefined, PString("pong"), PObject(1)}

EngineFailures ==
  { Failure("Error", None, <<>>),
    Failure("UNAUTHORIZED", Some(401), Header1("www-authenticate", "Basic")),
    Failure("UPSTREAM", Some(0), Header1("content-type", "text/html")) }

PipelineResults ==
  { EngineOutput(200, h, b, vi, vo) :
      h \in OutputHeaders, b \in Payloads, vi \in ViolationLists, vo \in ViolationLists }
  \cup { EngineFailure(e) : e \in EngineFailures }

Next ==
  \/ Fetch(1, PipelineRequests)
  \/ Resume(1)
  \/ EngineReply(1, PipelineResults)

Spec == Init /\ [][Next]_vars

\* ------------------------------------------------ concurrent fetch calls
\* Requests with and without preferences, and two engine results.
ConcRequests ==
  { TransportRequest("GET", <<>>, <<>>, ""),
    TransportRequest("GET", <<>>, <<<<"__code", "404">>>>, ""),
    TransportRequest("GET", Header1("prefer", <<Token("dynamic", "true"), Token("example", "cat")>>),
                     <<>>, "") }

ConcResults ==
  { EngineOutput(200, Header1("content-type", "application/json"), PObject(1), <<>>, <<>>),
    EngineFailure(Failure("Error", None, <<>>)) }

NextConc ==
  \E r \in Calls :
    \/ Fetch(r, ConcRequests)
    \/ Resume(r)
    \/ EngineReply(r, ConcResults)

SpecConc == Init /\ [][NextConc]_vars

\* ------------------------------------------------- request body normalizer
BodyHeaderSets ==
  { [k \in D |-> CASE k = "content-length" -> cl
                   [] k = "transfer-encoding" -> "chunked"
                   [] k = "content-type" -> ct] :
      D \in SUBSET {"content-length", "transfer-encoding", "content-type"},
      cl \in {"0", "7"},
      ct \in {"application/json", "application/vnd.api+json", "text/plain"} }

BodyRequests ==
  { TransportRequest("POST", h, <<>>, b) :
      h \in BodyHeaderSets, b \in {"", "{\"a\":1}", "{bad"} }

NextBody ==
  \/ Fetch(1, BodyRequests)
  \/ Resume(1)

SpecBody == Init /\ [][NextBody]_vars

\* ---------------------------------------------------- preference resolver
PreferHeaders ==
  { <<>>, <<Token("code", "200")>>, <<Token("code", "20")>>, <<Flag("dynamic")>>,
    <<Token("dynamic", "false"), Token("example", "dog")>> }

QueryLists ==
  { c \o d \o e :
      c \in {<<>>, <<<<"__code", "404">>>>, <<<<"__code", "4040">>>>,
             <<<<"__code", "404">>, <<"__code", "500">>>>},
      d \in {<<>>, <<<<"__dynamic", "true">>>>, <<<<"__dynamic", "yes">>>>},
      e \in {<<>>, <<<<"__example", "cat">>>>} }

PrefRequests ==
  { TransportRequest("GET", <<>>, q, "") : q \in QueryLists }
  \cup { TransportRequest("GET", Header1("prefer", p), q, "") :
           p \in PreferHeaders, q \in QueryLists }

NextPrefs ==
  \/ Fetch(1, PrefRequests)
  \/ Resume(1)

SpecPrefs == Init /\ [][NextPrefs]_vars

\* ------------------------------------------------ violation header budget
\* The length of the encoding of one request violation with an empty message.
EncodingOverhead ==
  Len(StringifyErrors(<<createErrorObjectWithPrefix("request", Diagnostic(<<"body">>, 1, "c", ""))>>))

\* The message length at which that encoding is exactly MAX_SAFE_HEADER_LENGTH.
CapFill == MAX_SAFE_HEADER_LENGTH - EncodingOverhead

LongDiagnostics ==
  { Diagnostic(<<"body">>, sv, "c", Repeat("x", n)) :
      sv \in {0, 1}, n \in {1, CapFill, CapFill + 1} }

LongLists == SeqUpTo(LongDiagnostics, MaxLongViolations)

LongResults ==
  { EngineOutput(200, Header1("content-type", "text/plain"), PString("pong"), vi, vo) :
      vi \in LongLists, vo \in LongLists }

HeaderRequests == {TransportRequest("GET", <<>>, <<>>, "")}

NextHeader ==
  \/ Fetch(1, HeaderRequests)
  \/ Resume(1)
  \/ EngineReply(1, LongResults)

SpecHeader == Init /\ [][NextHeader]_vars

\* ================================================================= claims
Past(r) == pc[r] \in {"awaitEngine", "responded", "rejected"}

Settled(r) == pc[r] \in {"responded", "rejected"}

\* The engine settled with an output (not a failure) for call r.
HasOutput(r) == engineResult[r] # <<>> /\ engineResult[r][1].tag = "Right"

OutputOf(r) == engineResult[r][1]

\* The violations of an engine result as fetch tags them: input then output.
TaggedDiagnostics(res) ==
  [i \in 1..Len(res.validations.input) |->
     [prefix |-> "request", d |-> res.validations.input[i]]]
  \o [i \in 1..Len(res.validations.output) |->
     [prefix |-> "response", d |-> res.validations.output[i]]]

HasOutputError(res) ==
  \E i \in 1..Len(res.validations.output) : res.validations.output[i].severity = 0

\* Strict-errors mode turns the result of call r into the VIOLATIONS failure.
ShortCircuits(r) == HasOutput(r) /\ config.errors /\ HasOutputError(OutputOf(r))

IsViolationsProblem(resp) ==
  resp.body.kind = "problem" /\ resp.body.problem.type = "VIOLATIONS"

\* ---------------------------------------------------------------------- C1
\* C1 (as claimed): every fetch call completes with a response; none ends
\* with a raw exception (a rejected promise), whichever stage failed.
C1_FetchNeverRejects ==
  \A r \in Calls : pc[r] # "rejected" /\ rejection[r] = <<>>

\* ---------------------------------------------------------------------- C2
ErrorOutputViolations(res) ==
  LET errs == SelectSeq(res.validations.output, LAMBDA d : d.severity = 0)
  IN  [i \in 1..Len(errs) |->
         [location |-> <<"response">> \o errs[i].path, severity |-> "Error",
          code |-> errs[i].code, message |-> errs[i].message]]

\* C2 (as claimed): once the engine has answered with an output, strict-errors
\* mode plus an Error-severity output violation makes the response the
\* VIOLATIONS problem-detail carrying exactly the Error-severity output
\* violations, without the engine's status and body; in every other case the
\* normal engine response (engine status, serialized engine body) is returned.
C2_StrictModeDecidesResponse ==
  \A r \in Calls :
    HasOutput(r) =>
      /\ pc[r] = "responded"
      /\ LET resp == response[r][1]
             out == OutputOf(r).output
         IN  IF config.errors /\ HasOutputError(OutputOf(r))
             THEN /\ IsViolationsProblem(resp)
                  /\ resp.body.problem.validation = ErrorOutputViolations(OutputOf(r))
                  /\ resp.status = VIOLATIONS.status
                  /\ resp.body.text = ""
             ELSE /\ resp.body.kind # "problem"
                  /\ resp.status = out.statusCode

\* ---------------------------------------------------------------------- C3
ThreeDigits(v) == Len(v) = 3 /\ \A i \in 1..3 : Char(v, i) \in {Char(Digits, k) : k \in 1..10}

\* The preference values a request supplies: by the prefer header when it has
\* one that is not empty, else by the three query parameters.
Supplied(q) ==
  IF "prefer" \in DOMAIN q.headers /\ q.headers["prefer"] # <<>>
  THEN parsePreferHeader(q.headers["prefer"])
  ELSE [code |-> NameValue(q.search, "__code"),
        dynamic |-> NameValue(q.search, "__dynamic"),
        example |-> NameValue(q.search, "__example")]

MalformedPreferences(q) ==
  LET p == Supplied(q)
  IN  \/ p.code.t \notin {"undefined", "string"}
      \/ p.code.t = "string" /\ ~ThreeDigits(p.code.s)
      \/ p.dynamic.t \notin {"undefined", "string"}
      \/ p.dynamic.t = "string" /\ p.dynamic.s \notin {"true", "false"}
      \/ p.example.t \notin {"undefined", "string"}

\* C3 (as claimed): a request with a malformed preference value is rejected
\* as a whole: the engine is never invoked for it, and its response is the
\* 422 problem-detail.
C3_MalformedPreferencesGet422 ==
  \A r \in Calls :
    (Past(r) /\ MalformedPreferences(request[r])) =>
      /\ engineConfig[r] = <<>>
      /\ pc[r] = "responded"
      /\ response[r][1].status = 422
      /\ response[r][1].body.kind = "problem"

\* ---------------------------------------------------------------------- C4
\* C4 (as claimed): a response to a call whose engine output has at least one
\* violation carries the sl-violations header, in strict-errors mode too; a
\* response to a call whose output has none does not carry it.
C4_ViolationHeaderOnEveryResponse ==
  \A r \in Calls :
    (HasOutput(r) /\ pc[r] = "responded") =>
      ("sl-violations" \in DOMAIN response[r][1].headers
         <=> Len(TaggedDiagnostics(OutputOf(r))) > 0)

\* ---------------------------------------------------------------------- C5
IsViolationEntry(e) ==
  Len(e.message) >= 11 /\ SubSeq(e.message, 1, 11) = "Violation: "

ViolationEntries(r) == SelectSeq(log[r], IsViolationEntry)

ExpectedLevel(severity) ==
  CASE severity = 0 -> "error"
    [] severity = 1 -> "warn"
    [] OTHER -> "info"

ExpectedEntries(res) ==
  LET ds == TaggedDiagnostics(res)
  IN  [i \in 1..Len(ds) |->
         [level |-> ExpectedLevel(ds[i].d.severity),
          message |-> "Violation: " \o Join(<<ds[i].prefix>> \o ds[i].d.path, ".")
                      \o " " \o ds[i].d.message]]

\* C5 (as claimed): once fetch has settled on an engine output, every violation
\* of the input-then-output list has been logged exactly once, in list order,
\* at the level of its own severity; in strict-errors mode too.
C5_EveryViolationLogged ==
  \A r \in Calls :
    (HasOutput(r) /\ Settled(r)) =>
      ViolationEntries(r) = ExpectedEntries(OutputOf(r))

\* C5 (amended): the same, unless strict-errors mode short-circuits to the
\* VIOLATIONS failure: then no violation is logged on its own, only the
\* failure is logged, once, by the error translator.
C5_ViolationsLoggedUnlessShortCircuit ==
  \A r \in Calls :
    (HasOutput(r) /\ Settled(r)) =>
      IF ShortCircuits(r)
      THEN /\ ViolationEntries(r) = <<>>
           /\ log[r][Len(log[r])] = ErrorLog(VIOLATIONS)
      ELSE ViolationEntries(r) = ExpectedEntries(OutputOf(r))

\* A settled call whose output has an input Warning and an output Error, logged
\* in that order because strict-errors mode is off.
C5_Witness ==
  \E r \in Calls :
    /\ HasOutput(r) /\ Settled(r) /\ ~config.errors
    /\ Len(OutputOf(r).validations.input) > 0
    /\ OutputOf(r).validations.input[1].severity = 1
    /\ HasOutputError(OutputOf(r))
    /\ Len(ViolationEntries(r)) = 2
    /\ ViolationEntries(r)[1].level = "warn"
    /\ ViolationEntries(r)[2].level = "error"

\* ---------------------------------------------------------------------- C6
NoBodyHeaders(q) ==
  "content-length" \notin DOMAIN q.headers /\ "transfer-encoding" \notin DOMAIN q.headers

ZeroLength(q) ==
  "content-length" \in DOMAIN q.headers /\ q.headers["content-length"] = "0"

\* C6 (as claimed): for a request with neither a content-length nor a
\* transfer-encoding header, and for a request whose content-length is "0",
\* the body is never read or parsed and the normalized body is null,
\* whatever the content-type.
C6_NoBodyHeadersMeansNullBody ==
  \A r \in Calls :
    (pc[r] # "idle" /\ (NoBodyHeaders(request[r]) \/ ZeroLength(request[r]))) =>
      /\ bodyReader[r] = "none"
      /\ pc[r] # "rejected"
      /\ Past(r) => input[r].body = PNull

\* ---------------------------------------------------------------------- C7
\* The failure the error translator was given for call r: the engine's, the
\* VIOLATIONS failure of strict-errors mode, or the 422 of the preferences.
TranslatedStatus(r) ==
  IF engineResult[r] = <<>> THEN Some(422)
  ELSE IF engineResult[r][1].tag = "Left" THEN engineResult[r][1].failure.status
  ELSE Some(500)

TranslatedHeaders(r) ==
  IF engineResult[r] # <<>> /\ engineResult[r][1].tag = "Left"
  THEN engineResult[r][1].failure.headers
  ELSE <<>>

FromTranslator(r) == pc[r] = "responded" /\ response[r][1].body.kind = "problem"

ExpectedStatus(st) == IF st = <<>> \/ st[1] = 0 THEN 500 ELSE st[1]

\* C7 (as claimed): every response of the error translator has content-type
\* application/problem+json, also when the failure's additional headers hold a
\* content-type of their own; its status is the failure's, or 500 for none or
\* zero; every additional header of the failure is in it unchanged.
C7_ProblemJsonAlways ==
  \A r \in Calls :
    FromTranslator(r) =>
      LET resp == response[r][1]
          extra == TranslatedHeaders(r)
      IN  /\ resp.headers["content-type"] = "application/problem+json"
          /\ resp.status = ExpectedStatus(TranslatedStatus(r))
          /\ \A n \in DOMAIN extra : n \in DOMAIN resp.headers /\ resp.headers[n] = extra[n]

\* C7 (amended): the content-type is application/problem+json unless the
\* failure's additional headers hold a content-type of their own, which then
\* replaces it; status and additional headers as claimed.
C7_ProblemJsonUnlessOverridden ==
  \A r \in Calls :
    FromTranslator(r) =>
      LET resp == response[r][1]
          extra == TranslatedHeaders(r)
      IN  /\ resp.headers["content-type"] =
               (IF "content-type" \in DOMAIN extra THEN extra["content-type"]
                ELSE "application/problem+json")
          /\ resp.status = ExpectedStatus(TranslatedStatus(r))
          /\ \A n \in DOMAIN extra : n \in DOMAIN resp.headers /\ resp.headers[n] = extra[n]
          /\ DOMAIN resp.headers = {"content-type"} \cup DOMAIN extra

\* A translated engine failure with a zero status and a content-type of its
\* own: status 500, the failure's content-type.
C7_Witness ==
  \E r \in Calls :
    /\ FromTranslator(r)
    /\ TranslatedStatus(r) = Some(0)
    /\ "content-type" \in DOMAIN TranslatedHeaders(r)
    /\ response[r][1].status = 500
    /\ response[r][1].headers["content-type"] = "text/html"

\* ---------------------------------------------------------------------- C8
HasViolationHeader(r) ==
  pc[r] = "responded" /\ "sl-violations" \in DOMAIN response[r][1].headers

HeaderValue(r) == response[r][1].headers["sl-violations"]

\* JSON.stringify of the tagged violation list of call r's engine output.
Encoding(r) ==
  StringifyErrors(MapWithPrefix("request", OutputOf(r).validations.input)
                  \o MapWithPrefix("response", OutputOf(r).validations.output))

Notice == "Too many violations! "

\* C8 (as claimed): the sl-violations value is at most 8116 long; an encoding
\* longer than 8116 is emitted truncated behind the notice, one of at most 8116
\* unmodified.
C8_HeaderAtMostCap ==
  \A r \in Calls :
    HasViolationHeader(r) =>
      /\ Len(HeaderValue(r)) <= 8116
      /\ Len(Encoding(r)) <= 8116 => HeaderValue(r) = Encoding(r)
      /\ Len(Encoding(r)) > 8116 => SubSeq(HeaderValue(r), 1, Len(Notice)) = Notice

\* C8 (amended): the cap is 8 * 1024 - 100 = 8092, not 8116.  An encoding
\* longer than 8092 is cut to its first 8092 characters and the notice is put
\* in front of them, so the value is 8092 plus the length of the notice (21),
\* 8113, long; an encoding of at most 8092 is emitted unmodified.
C8_HeaderCapIs8092 ==
  \A r \in Calls :
    HasViolationHeader(r) =>
      /\ Len(HeaderValue(r)) <= 8092 + 21
      /\ Len(Encoding(r)) <= 8092 => HeaderValue(r) = Encoding(r)
      /\ Len(Encoding(r)) > 8092 =>
           /\ Len(HeaderValue(r)) = 8092 + 21
           /\ SubSeq(HeaderValue(r), 1, 21) = Notice
           /\ SubSeq(HeaderValue(r), 22, Len(HeaderValue(r))) = SubSeq(Encoding(r), 1, 8092)

\* A response whose violation list encodes to 8093 characters, one over the
\* cap: the value is the notice and the first 8092 of them.
C8_Witness ==
  \E r \in Calls :
    /\ HasViolationHeader(r)
    /\ Len(Encoding(r)) = 8093
    /\ Len(HeaderValue(r)) = 8113

\* ---------------------------------------------------------------------- C9
\* The preferences call r's own request resolves to.
OwnPreferences(r) == getHttpConfigFromRequest(input[r]).right

\* The config the engine got for call r is the baseline with r's own
\* preferences, field by field, and nothing of any other call.
EngineGotOwnConfig(r) ==
  engineConfig[r] # <<>> =>
    LET got == engineConfig[r][1]
        own == OwnPreferences(r)
    IN  /\ got.errors = config.errors
        /\ \A k \in {"code", "exampleKey", "dynamic"} :
             got.mock[k] = IF own[k] = <<>> THEN config.mock[k] ELSE own[k]

\* C9: no step of any interleaving of fetch calls changes the baseline
\* configuration (its mock section included), and the engine receives for each
\* call the baseline overridden by that call's own preferences only: a field
\* the call does not give has the baseline's value.
C9_BaselineNeverChanges ==
  /\ [][config' = config]_vars
  /\ [](\A r \in Calls : EngineGotOwnConfig(r))

\* Two calls await the engine at once with different configs, one of them the
\* baseline itself.
C9_Witness ==
  \E r1, r2 \in Calls :
    /\ pc[r1] = "awaitEngine" /\ pc[r2] = "awaitEngine"
    /\ engineConfig[r1][1].mock = config.mock
    /\ engineConfig[r2][1].mock.code = <<404>>
    /\ config.mock.code # <<404>>

\* --------------------------------------------------------------------- C10
HasPreferHeader(q) == "prefer" \in DOMAIN q.headers /\ q.headers["prefer"] # <<>>

FromHeader(q) == PreferencesDecoder(parsePreferHeader(q.headers["prefer"]))

FromQuery(q) ==
  PreferencesDecoder([code |-> NameValue(q.search, "__code"),
                      dynamic |-> NameValue(q.search, "__dynamic"),
                      example |-> NameValue(q.search, "__example")])

\* Call r went on with exactly the decoded preferences d: the engine was
\* invoked with them over the baseline, or, for a failed decoding, not at all
\* and the response is the 422.
WentOnWith(r, d) ==
  IF d.ok
  THEN /\ engineConfig[r] # <<>>
       /\ engineConfig[r][1].mock =
            [code |-> IF d.code = <<>> THEN config.mock.code ELSE d.code,
             exampleKey |-> IF d.example = <<>> THEN config.mock.exampleKey ELSE d.example,
             dynamic |-> IF d.dynamic = <<>> THEN config.mock.dynamic ELSE d.dynamic]
  ELSE /\ engineConfig[r] = <<>>
       /\ pc[r] = "responded"
       /\ response[r][1].status = 422

\* C10: with a non-empty prefer header the preferences are those of the
\* header alone, whatever the __code, __dynamic and __example query parameters
\* hold; without one (or with an empty one) they are those of the three query
\* parameters.
C10_PreferHeaderPrecedence ==
  \A r \in Calls :
    (Past(r) /\ pc[r] # "rejected") =>
      IF HasPreferHeader(request[r])
      THEN WentOnWith(r, FromHeader(request[r]))
      ELSE WentOnWith(r, FromQuery(request[r]))

\* The header gives only a code; the query holds a malformed __dynamic and an
\* __example: the engine is invoked with the header's code and the baseline's
\* other fields.
C10_Witness ==
  \E r \in Calls :
    /\ pc[r] = "awaitEngine"
    /\ DOMAIN request[r].headers = {"prefer"}
    /\ Len(request[r].headers["prefer"]) = 1
    /\ request[r].headers["prefer"][1].key = "code"
    /\ request[r].headers["prefer"][1].value = "200"
    /\ GetAll(request[r].search, "__dynamic") = <<"yes">>
    /\ GetAll(request[r].search, "__example") = <<"cat">>
    /\ engineConfig[r][1].mock.code = <<200>>
    /\ engineConfig[r][1].mock.exampleKey = config.mock.exampleKey
    /\ engineConfig[r][1].mock.dynamic = config.mock.dynamic

====
